---- MODULE Spec2Model ----
(***************************************************************************)
(* State-machine model of the Nation Analytics scrapers.                   *)
(*   src/nation3.py  : dynamic agency discovery (process_funding_agency),  *)
(*                     wait_for_file_download, clear_stale_downloads,      *)
(*                     get_nation_analytic_df, __main__                    *)
(*   src/Nation_2.py : fixed agency list, wait_for_download                *)
(*   get_excel_df    : the period normalisation of both files              *)
(* The dashboard and the browser's download directory are the environment. *)
(***************************************************************************)
EXTENDS Integers, Sequences, FiniteSets, TLC

VARIABLES
    variant,             \* which script runs: "nation3" or "Nation_2"
    pc,                  \* position of the single thread of control
    outcome,             \* "running" | "returned" | "fatal_enum" | "fatal_empty"
                         \* | "fatal_ui" | "fatal_parse" | "fatal_timeout"
                         \* | "fatal_concat"
    written,             \* __main__ wrote the CSV
    processed_agencies,  \* nation3.py:415
    returned,            \* history: values returned by process_funding_agency
    retry,               \* nation3.py:299
    attempts,            \* history: attempts started in the current call
    queryText,           \* text in the QueryBox textarea
    agency,              \* the active agency (cleaned title)
    ci,                  \* index into COMPANIES
    file,                \* whose export sits at Downloads/contracts-flow.xlsx
    dl,                  \* browser downloads: combination -> "idle"|"req"|"part"
    polls,               \* polls done by the current download wait
    waitResult,          \* "none" | "true" | "false" | "raise"
    obs,                 \* directory as it was at the deciding poll / timeout
    sawFile,             \* history: the final file existed during this wait
    all_agency_dfs,      \* nation3.py:414 / Nation_2.py:240 final_dfs
    skipped,             \* history: combinations whose wait returned False
    triggers,            \* history: export triggers per combination
    lates,               \* history: downloads that outlived their wait
    agencies,            \* Nation_2.py:237
    ai,                  \* Nation_2.py:245 loop index
    label,               \* get_excel_df: the parsed period label <<y, m, d>>
    normalized,          \* get_excel_df: the normalised date, or NoDate
    supplierSel,         \* the values ticked in the Supplier facet
    fundingSel,          \* the values ticked in the Funding Agency facet
    inFrame,             \* the driver is inside the visualization iframe
    recoveries,          \* history: recovery actions of the current call
    active,              \* history: the company activated and not yet deactivated
    activations,         \* history: activations per combination
    wide,                \* get_excel_df: the export as read, or NoTable
    melted,              \* get_excel_df: the returned records
    faults,              \* the faults this run meets: "download" | "ui"
    lastRead             \* history: what the attempt that returned had read

vars == << variant, pc, outcome, written, processed_agencies, returned, retry,
           attempts, queryText, agency, ci, file, dl, polls, waitResult, obs,
           sawFile, all_agency_dfs, skipped, triggers, lates, agencies, ai,
           label, normalized, supplierSel, fundingSel, inFrame, recoveries,
           active, activations, wide, melted, faults, lastRead >>

runVars == << variant, pc, outcome, written, processed_agencies, returned, retry,
              attempts, queryText, agency, ci, file, dl, polls, waitResult, obs,
              sawFile, all_agency_dfs, skipped, triggers, lates, agencies, ai,
              supplierSel, fundingSel, inFrame, recoveries, active,
              activations, lastRead >>

dateVars == << label, normalized >>

reshapeVars == << wide, melted >>

-----------------------------------------------------------------------------
(* Bounds of the model *)

NumAgencies == 2      \* agencies the facet holds
MaxPolls == 2         \* polls that fit into the timeout of a download wait
MaxTimeouts == 1      \* timed-out waits once a combination has succeeded
MaxLate == 1          \* downloads of a run that outlive their wait
NumYears == 2         \* years the period labels are drawn from
MaxPeriods == 2       \* period columns of an export
MaxValue == 1         \* cell values of an export are 0..MaxValue

-----------------------------------------------------------------------------
(* Program constants *)

COMPANIES ==
    << "Booz Allen Hamilton - BAH", "CACI - CACI", "Leidos - LDOS",
       "PARSONS - PSN", "Tetra Tech - TTEK" >>

RetryBudget == 8

\* Titles are <<code, padded>>; code 0 is the empty string, a positive code an
\* agency name.  The sentinels of nation3.py:328:
EMPTY == 0
ALL == -1
NULLV == -2

Sentinels == {ALL, NULLV}

AgencyCodes == 1..NumAgencies

\* The search text of company i: COMPANIES[i] up to the "-" (nation3.py:447-448),
\* a name that no agency title matches.
CompanyText(i) == 100 + i

CompanyIdx == 1..Len(COMPANIES)

\* "(All)", "Null" and one option per agency; the first agency's title carries
\* surrounding whitespace.
FacetTitles ==
    {<<ALL, FALSE>>, <<NULLV, FALSE>>} \cup {<<a, a = 1>> : a \in AgencyCodes}

\* The other <a title=...> elements of the page, which the lookup of
\* nation3.py:315-321 (//a[@title], not confined to the dropdown) returns as
\* well: an empty title, a title of blanks, and the sentinels with blanks
\* around them.
OtherTitles ==
    {<<EMPTY, FALSE>>, <<EMPTY, TRUE>>, <<ALL, TRUE>>, <<NULLV, TRUE>>}

\* title.strip()
Strip(t) == t[1]

\* No attempt has returned in this call.
NoRead == [options |-> {}, processed |-> {}]

\* The text of the QueryBox is the sequence of names typed into it since it was
\* last cleared.  send_keys appends.
NoText == << >>

send_keys(text, name) == Append(text, name)

\* The options the facet lists under the text in the QueryBox: all of them when
\* the box is empty, else those whose title the text matches ("(All)" is always
\* listed).
Options(text) ==
    {t \in FacetTitles :
        text = NoText \/ text = << Strip(t) >> \/ Strip(t) = ALL}
    \cup OtherTitles

\* nation3.py:323-329
available_agencies_NoDedup(options, processed) ==
    {Strip(t) : t \in {o \in options :
        Strip(o) # EMPTY /\ Strip(o) \notin Sentinels}}

available_agencies_NoSentinels(options, processed) ==
    {Strip(t) : t \in options} \ ({EMPTY} \cup processed)

available_agencies(options, processed) ==
    {Strip(t) : t \in {o \in options :
        Strip(o) # EMPTY /\ Strip(o) \notin Sentinels
        /\ Strip(o) \notin processed}}

\* nation3.py:335 available_agencies[0].  The UI lists the options in ascending
\* order; in a run that meets "ui" faults the list may come reversed at any
\* read, so the first candidate is the least or the greatest eligible one.
First(S) ==
    {a \in S : \/ \A b \in S : a <= b
               \/ faults = "ui" /\ \A b \in S : a >= b}

\* Combinations: <<agency, company index>>.  Nation_2 also iterates "Null".
ComboSet == (AgencyCodes \cup {NULLV}) \X CompanyIdx

AllCombos == AgencyCodes \X CompanyIdx

NoFile == <<0, 0>>

NoDate == <<0, 0, 0>>

NoTable == [header |-> << >>, rows |-> << >>]

\* The values of the Supplier facet: the companies of COMPANIES by index, and 0
\* for the suppliers of the dashboard that are not in the list.
SupplierFacet == 0..Len(COMPANIES)

\* The values of the Funding Agency facet: every option but "(All)".
FundingFacet == AgencyCodes \cup {NULLV}

Marker == \E c \in ComboSet : dl[c] = "part"

cur == <<agency, ci>>

\* A run meets faults of one kind besides the failures that end it: exports
\* that come late or never ("download"), or a dashboard that lists the options
\* in another order and whose Funding Agency checkboxes fail to be clicked
\* ("ui").
FaultKinds == {"download", "ui"}

-----------------------------------------------------------------------------
\* Nothing has run yet.
Fresh ==
    /\ outcome = "running"
    /\ written = FALSE
    /\ processed_agencies = {}
    /\ returned = << >>
    /\ retry = RetryBudget
    /\ attempts = 0
    /\ queryText = NoText
    /\ agency = EMPTY
    /\ ci = 1
    /\ file = NoFile
    /\ dl = [c \in ComboSet |-> "idle"]
    /\ polls = 0
    /\ waitResult = "none"
    /\ obs = [file |-> FALSE, marker |-> FALSE]
    /\ sawFile = FALSE
    /\ all_agency_dfs = << >>
    /\ skipped = {}
    /\ triggers = [c \in ComboSet |-> 0]
    /\ lates = 0
    /\ agencies = << >>
    /\ ai = 1
    /\ supplierSel = SupplierFacet
    /\ fundingSel = FundingFacet
    /\ inFrame = TRUE
    /\ recoveries = 0
    /\ active = 0
    /\ activations = [c \in ComboSet |-> 0]
    /\ lastRead = NoRead

Init ==
    /\ variant \in {"nation3", "Nation_2"}
    /\ pc = "start"
    /\ Fresh
    /\ label = NoDate
    /\ normalized = NoDate
    /\ wide = NoTable
    /\ melted = << >>
    /\ faults \in FaultKinds

-----------------------------------------------------------------------------
(* The environment: the browser writing exports into the download directory *)

\* The program reads the download directory only inside a wait and when it
\* parses; a change made elsewhere is seen exactly as one made right before the
\* next wait, so the browser's steps are taken at these positions only.
DirObserved == pc \in {"trigger", "wait", "got", "n2_trigger", "n2_wait", "n2_got"}

\* The browser starts writing a requested export: contracts-flow.xlsx.crdownload
\* appears.
DlBegin(c) ==
    /\ DirObserved
    /\ dl[c] = "req"
    /\ dl' = [dl EXCEPT ![c] = "part"]
    /\ UNCHANGED << variant, pc, outcome, written, processed_agencies, returned,
                    retry, attempts, queryText, agency, ci, file, polls,
                    waitResult, obs, sawFile, all_agency_dfs, skipped, triggers,
                    lates, agencies, ai, label, normalized,
                    supplierSel, fundingSel, inFrame, recoveries, active,
                    activations, wide, melted, faults, lastRead >>

\* The browser finishes an export: the partial file is renamed to
\* contracts-flow.xlsx, whatever combination the program is at by then.
DlComplete(c) ==
    /\ DirObserved
    /\ dl[c] = "part"
    /\ dl' = [dl EXCEPT ![c] = "idle"]
    /\ file' = c
    /\ sawFile' = (sawFile \/ pc \in {"wait", "n2_wait"})
    /\ UNCHANGED << variant, pc, outcome, written, processed_agencies, returned,
                    retry, attempts, queryText, agency, ci, polls, waitResult,
                    obs, all_agency_dfs, skipped, triggers, lates, agencies, ai, label,
                    normalized,
                    supplierSel, fundingSel, inFrame, recoveries, active,
                    activations, wide, melted, faults, lastRead >>

\* nation3.py:249 `time.time() - start_time < timeout`, in polls.
TimeLeft(n) == n < MaxPolls

\* Waits that end by timeout are bounded: any number while nothing has been
\* collected (the systemic failure), MaxTimeouts after that.
TimeoutAllowed ==
    /\ faults = "download"
    /\ all_agency_dfs = << >> \/ Cardinality(skipped) < MaxTimeouts

\* Something outside the program removes the final file during a wait.
FsVanish ==
    /\ pc = "wait"
    /\ file # NoFile
    /\ TimeoutAllowed
    /\ file' = NoFile
    /\ UNCHANGED << variant, pc, outcome, written, processed_agencies, returned,
                    retry, attempts, queryText, agency, ci, dl, polls,
                    waitResult, obs, sawFile, all_agency_dfs, skipped, triggers,
                    lates, agencies, ai, label, normalized,
                    supplierSel, fundingSel, inFrame, recoveries, active,
                    activations, wide, melted, faults, lastRead >>

\* When a wait ends with the export of its combination still in flight, the
\* browser either keeps writing it (MaxLate times in a run) or never delivers
\* it; an export that has not arrived by the end of the next wait never does.
Idle == [c \in ComboSet |-> "idle"]

AfterWaitDl(c) ==
    {Idle} \cup (IF faults = "download" /\ lates < MaxLate /\ dl[c] # "idle"
                 THEN {[Idle EXCEPT ![c] = dl[c]]} ELSE {})

-----------------------------------------------------------------------------
(* nation3.py: process_funding_agency *)

\* nation3.py:365
OnFailRetry_NoDecrement(r) == r

OnFailRetry(r) == r - 1

\* input_area.clear(), nation3.py:344, 451, 480
InputAreaClear_Noop(text) == text

InputAreaClear(text) == NoText

\* nation3.py:142-161 checkbox_input(driver, word): one click on the checkbox of
\* `word`.  A click on a value ticks or unticks it; a click on "(All)" unticks
\* every value when all of them are ticked and ticks every value otherwise.
checkbox_input(sel, word, facet) ==
    IF word = ALL THEN (IF sel = facet THEN {} ELSE facet)
    ELSE IF word \in sel THEN sel \ {word} ELSE sel \cup {word}

\* nation3.py:164-186 checkbox_select(driver, word): click only if not ticked.
checkbox_select(sel, word, facet) ==
    IF word \in sel THEN sel ELSE checkbox_input(sel, word, facet)

\* nation3.py:348-354: checkbox_select(next_agency), then a click on "(All)"
\* whose failure is swallowed.
AfterSelect(sel, a) ==
    LET ticked == checkbox_select(sel, a, FundingFacet)
    IN  {checkbox_input(ticked, ALL, FundingFacet)}
            \cup (IF faults = "ui" THEN {ticked} ELSE {})

\* nation3.py:388-415: driver, login, navigation, month view, empty collections.
Main_Setup ==
    /\ pc = "start"
    /\ variant = "nation3"
    /\ pc' = "pfa"
    /\ retry' = RetryBudget
    /\ attempts' = 0
    /\ recoveries' = 0
    /\ UNCHANGED << variant, outcome, written, processed_agencies, returned,
                    queryText, agency, ci, file, dl, polls, waitResult, obs,
                    sawFile, all_agency_dfs, skipped, triggers, lates, agencies, ai,
                    label, normalized,
                    supplierSel, fundingSel, inFrame, active,
                    activations, wide, melted, faults, lastRead >>

\* nation3.py:360 processed_agencies.add(next_agency)
processed_add_Replace(processed, a) == {a}

processed_add(processed, a) == processed \cup {a}

\* nation3.py:423-426: the traversal loop's test of the value the call returned,
\* `if not agency: break`.
AfterCall_NoBreak(a) == "supplier"

AfterCall(a) == IF a = EMPTY THEN "finalize" ELSE "supplier"

\* One attempt that reaches `return next_agency` (nation3.py:301-362), which
\* takes the driver to be inside the iframe that holds the dropdowns, with the
\* caller's test of the result (nation3.py:423-424).  The option list comes in
\* an order the UI chooses, so available_agencies[0] is any eligible value.
PFA_ReturnAgency ==
    /\ pc = "pfa"
    /\ retry > 0
    /\ inFrame
    /\ \E next_agency \in
           First(available_agencies(Options(queryText), processed_agencies)) :
        /\ queryText' = send_keys(InputAreaClear(queryText), next_agency)
        /\ processed_agencies' = processed_add(processed_agencies, next_agency)
        /\ returned' = Append(returned, next_agency)
        /\ agency' = next_agency
        /\ fundingSel' \in AfterSelect(fundingSel, next_agency)
        /\ pc' = AfterCall(next_agency)
    /\ lastRead' = [options |-> Options(queryText),
                    processed |-> processed_agencies]
    /\ attempts' = attempts + 1
    /\ UNCHANGED << variant, outcome, written, retry, ci, file, dl, polls,
                    waitResult, obs, sawFile, all_agency_dfs, skipped, triggers,
                    lates, agencies, ai, label, normalized,
                    supplierSel, inFrame, recoveries, active,
                    activations, wide, melted, faults >>

\* One attempt that finds no eligible option and returns "" (nation3.py:331-333);
\* the caller leaves the loop (nation3.py:424-426).
PFA_ReturnTerminal ==
    /\ pc = "pfa"
    /\ retry > 0
    /\ inFrame
    /\ available_agencies(Options(queryText), processed_agencies) = {}
    /\ returned' = Append(returned, EMPTY)
    /\ lastRead' = [options |-> Options(queryText),
                    processed |-> processed_agencies]
    /\ attempts' = attempts + 1
    /\ pc' = AfterCall(EMPTY)
    /\ UNCHANGED << variant, outcome, written, processed_agencies, retry,
                    queryText, agency, ci, file, dl, polls, waitResult, obs,
                    sawFile, all_agency_dfs, skipped, triggers, lates, agencies, ai,
                    label, normalized,
                    supplierSel, fundingSel, inFrame, recoveries, active,
                    activations, wide, melted, faults >>

\* One attempt that raises (nation3.py:364-366): before the search text is
\* typed, or after it (the candidate's name stays in the QueryBox), there
\* before or after the clicks on the checkboxes.
PFA_AttemptFails ==
    /\ pc = "pfa"
    /\ retry > 0
    /\ \/ UNCHANGED << queryText, fundingSel >>
       \/ \E next_agency \in
              First(available_agencies(Options(queryText), processed_agencies)) :
            /\ inFrame
            /\ queryText' = send_keys(InputAreaClear(queryText), next_agency)
            /\ fundingSel' \in {fundingSel} \cup
                   (IF faults = "ui" THEN AfterSelect(fundingSel, next_agency)
                    ELSE {})
    /\ attempts' = attempts + 1
    /\ retry' = OnFailRetry(retry)
    /\ pc' = "pfa_recover"
    /\ UNCHANGED << variant, outcome, written, processed_agencies, returned,
                    agency, ci, file, dl, polls, waitResult, obs, sawFile,
                    all_agency_dfs, skipped, triggers, lates, agencies, ai, label,
                    normalized,
                    supplierSel, inFrame, recoveries, active,
                    activations, wide, melted, faults, lastRead >>

\* nation3.py:376-377: what a recovery that raised leaves of the retry budget.
OnRecoveryFail_Charged(r) == r - 1

OnRecoveryFail(r) == r

\* The recovery of nation3.py:368-379: back to the base document, find the
\* iframe, enter it.  When it raises, before or after the driver has left the
\* frame, the exception is swallowed.
PFA_Recover ==
    /\ pc = "pfa_recover"
    /\ \/ inFrame' = TRUE /\ UNCHANGED retry
       \/ inFrame' \in {inFrame, FALSE} /\ retry' = OnRecoveryFail(retry)
    /\ recoveries' = recoveries + 1
    /\ pc' = "pfa"
    /\ UNCHANGED << variant, outcome, written, processed_agencies, returned,
                    attempts, queryText, agency, ci, file, dl, polls,
                    waitResult, obs, sawFile, all_agency_dfs, skipped, triggers,
                    lates, agencies, ai, label, normalized,
                    supplierSel, fundingSel, active,
                    activations, wide, melted, faults, lastRead >>

\* nation3.py:381, 423, 502: where control goes when the enumerator raises with
\* dfs collected so far: no handler, the script ends.
OnExhausted_Finalize(dfs) == IF dfs = << >> THEN "done" ELSE "finalize"

OnExhausted(dfs) == "done"

\* nation3.py:300, 381: the budget is spent, the exception leaves the script.
PFA_Raise ==
    /\ pc = "pfa"
    /\ retry <= 0
    /\ outcome' = "fatal_enum"
    /\ pc' = OnExhausted(all_agency_dfs)
    /\ UNCHANGED << variant, written, processed_agencies, returned, retry,
                    attempts, queryText, agency, ci, file, dl, polls,
                    waitResult, obs, sawFile, all_agency_dfs, skipped, triggers,
                    lates, agencies, ai, label, normalized,
                    supplierSel, fundingSel, inFrame, recoveries, active,
                    activations, wide, melted, faults, lastRead >>

-----------------------------------------------------------------------------
(* nation3.py: wait_for_file_download and the loops of get_nation_analytic_df *)

\* nation3.py:250-252: the final file exists and its .crdownload sibling does not.
Ready_IgnoresMarker(fileExists, markerExists) == fileExists

Ready(fileExists, markerExists) == fileExists /\ ~markerExists

\* nation3.py:256: what the wait returns once the timeout has elapsed.
OnTimeout_FinalCheck(fileExists, markerExists) ==
    IF fileExists THEN "true" ELSE "false"

OnTimeout(fileExists, markerExists) == "false"

\* nation3.py:474-476: a timed-out combination appends nothing.
SkipDfs_Appends(dfs, c) ==
    Append(dfs, [agency |-> c[1], company |-> c[2], src |-> NoFile])

SkipDfs(dfs, c) == dfs

\* nation3.py:471 all_agency_dfs.append(df), Nation_2.py:289
append_Front(dfs, df) == << df >> \o dfs

append(dfs, df) == Append(dfs, df)

\* nation3.py:488
IsEmptyResult_Never(dfs) == FALSE

IsEmptyResult(dfs) == dfs = << >>

\* nation3.py:428-442: open the supplier dropdown, toggle "(All)".  The locals
\* of the call that just returned are gone.
Main_OpenSupplier ==
    /\ pc = "supplier"
    /\ ci' = 1
    /\ retry' = RetryBudget
    /\ attempts' = 0
    /\ pc' = "activate"
    /\ supplierSel' = checkbox_input(supplierSel, ALL, SupplierFacet)
    /\ recoveries' = 0
    /\ lastRead' = NoRead
    /\ UNCHANGED << variant, outcome, written, processed_agencies, returned,
                    queryText, agency, file, dl, polls, waitResult, obs,
                    sawFile, all_agency_dfs, skipped, triggers, lates, agencies,
                    ai, label, normalized,
                    fundingSel, inFrame, active,
                    activations, wide, melted, faults >>

\* nation3.py:444-458: search for the company and toggle its checkbox.
Main_Activate ==
    /\ pc = "activate"
    /\ queryText' = send_keys(InputAreaClear(queryText), CompanyText(ci))
    /\ pc' = "clear"
    /\ supplierSel' = checkbox_input(supplierSel, ci, SupplierFacet)
    /\ active' = ci
    /\ activations' = [activations EXCEPT ![cur] = @ + 1]
    /\ UNCHANGED << variant, outcome, written, processed_agencies, returned,
                    retry, attempts, agency, ci, file, dl, polls, waitResult,
                    obs, sawFile, all_agency_dfs, skipped, triggers, lates, agencies,
                    ai, label, normalized,
                    fundingSel, inFrame, recoveries, wide, melted, faults, lastRead >>

\* nation3.py:259-267, 460-462: contracts-flow*.xlsx is removed; the pattern
\* does not match contracts-flow.xlsx.crdownload.
clear_stale_downloads ==
    /\ pc = "clear"
    /\ file' = NoFile
    /\ pc' = "trigger"
    /\ UNCHANGED << variant, outcome, written, processed_agencies, returned,
                    retry, attempts, queryText, agency, ci, dl, polls,
                    waitResult, obs, sawFile, all_agency_dfs, skipped, triggers,
                    lates, agencies, ai, label, normalized,
                    supplierSel, fundingSel, inFrame, recoveries, active,
                    activations, wide, melted, faults, lastRead >>

\* nation3.py:189-209, 464: request the crosstab; the wait starts its clock.
download_excel_file ==
    /\ pc = "trigger"
    /\ dl' = [dl EXCEPT ![cur] = "req"]
    /\ triggers' = [triggers EXCEPT ![cur] = @ + 1]
    /\ polls' = 0
    /\ waitResult' = "none"
    /\ sawFile' = (file # NoFile)
    /\ obs' = [file |-> FALSE, marker |-> FALSE]
    /\ pc' = "wait"
    /\ UNCHANGED << variant, outcome, written, processed_agencies, returned,
                    retry, attempts, queryText, agency, ci, file,
                    all_agency_dfs, skipped, lates, agencies, ai, label,
                    normalized,
                    supplierSel, fundingSel, inFrame, recoveries, active,
                    activations, wide, melted, faults, lastRead >>

\* nation3.py:249-255: one iteration of the polling loop.  The last sleep of a
\* wait that will time out is taken only while timeouts are allowed.
wait_for_file_download_Poll ==
    /\ pc = "wait"
    /\ TimeLeft(polls)
    /\ obs' = [file |-> file # NoFile, marker |-> Marker]
    /\ IF Ready(file # NoFile, Marker)
       THEN /\ waitResult' = "true"
            /\ pc' = "got"
            /\ UNCHANGED polls
       ELSE /\ TimeLeft(polls + 1) \/ TimeoutAllowed
            /\ polls' = polls + 1
            /\ UNCHANGED << waitResult, pc >>
    /\ UNCHANGED << variant, outcome, written, processed_agencies, returned,
                    retry, attempts, queryText, agency, ci, file, dl, sawFile,
                    all_agency_dfs, skipped, triggers, lates, agencies, ai, label,
                    normalized,
                    supplierSel, fundingSel, inFrame, recoveries, active,
                    activations, wide, melted, faults, lastRead >>

\* nation3.py:249, 256: the timeout has elapsed.
wait_for_file_download_Timeout ==
    /\ pc = "wait"
    /\ ~TimeLeft(polls)
    /\ obs' = [file |-> file # NoFile, marker |-> Marker]
    /\ waitResult' = OnTimeout(file # NoFile, Marker)
    /\ pc' = IF waitResult' = "true" THEN "got" ELSE "skip"
    /\ UNCHANGED << variant, outcome, written, processed_agencies, returned,
                    retry, attempts, queryText, agency, ci, file, dl, polls,
                    sawFile, all_agency_dfs, skipped, triggers, lates, agencies, ai,
                    label, normalized,
                    supplierSel, fundingSel, inFrame, recoveries, active,
                    activations, wide, melted, faults, lastRead >>

\* The wait has returned and its result has been used.
WaitLocalsGone ==
    /\ polls' = 0
    /\ waitResult' = "none"
    /\ obs' = [file |-> FALSE, marker |-> FALSE]
    /\ sawFile' = FALSE

\* nation3.py:467-473: reshape the file at the expected path, tag it with the
\* current combination, append, delete the file.
Main_Parse ==
    /\ pc = "got"
    /\ all_agency_dfs' = append(all_agency_dfs,
           [agency |-> agency, company |-> ci, src |-> file])
    /\ file' = NoFile
    /\ dl' \in AfterWaitDl(cur)
    /\ lates' = IF dl'[cur] # "idle" THEN lates + 1 ELSE lates
    /\ WaitLocalsGone
    /\ pc' = "deact"
    /\ UNCHANGED << variant, outcome, written, processed_agencies, returned,
                    retry, attempts, queryText, agency, ci, skipped, triggers,
                    agencies, ai, label, normalized,
                    supplierSel, fundingSel, inFrame, recoveries, active,
                    activations, wide, melted, faults, lastRead >>

\* nation3.py:474-476: log the timeout, close the dropdowns.
Main_Skip ==
    /\ pc = "skip"
    /\ skipped' = skipped \cup {cur}
    /\ all_agency_dfs' = SkipDfs(all_agency_dfs, cur)
    /\ dl' \in AfterWaitDl(cur)
    /\ lates' = IF dl'[cur] # "idle" THEN lates + 1 ELSE lates
    /\ WaitLocalsGone
    /\ pc' = "deact"
    /\ UNCHANGED << variant, outcome, written, processed_agencies, returned,
                    retry, attempts, queryText, agency, ci, file, triggers,
                    agencies, ai, label, normalized,
                    supplierSel, fundingSel, inFrame, recoveries, active,
                    activations, wide, melted, faults, lastRead >>

\* nation3.py:444 `for company in COMPANIES`: the entry after entry i.
NextCompany_Skip(i) == i + 2

NextCompany(i) == i + 1

\* nation3.py:478-482 and the loop heads 444, 422-423: untick the company, clear
\* the QueryBox, go to the next company or call the enumerator again.
Main_Deactivate ==
    /\ pc = "deact"
    /\ queryText' = InputAreaClear(queryText)
    /\ IF ci < Len(COMPANIES)
       THEN /\ ci' = NextCompany(ci)
            /\ pc' = "activate"
            /\ UNCHANGED << retry, attempts >>
       ELSE /\ pc' = "pfa"
            /\ retry' = RetryBudget
            /\ attempts' = 0
            /\ UNCHANGED ci
    /\ recoveries' = 0
    /\ supplierSel' = checkbox_input(supplierSel, ci, SupplierFacet)
    /\ active' = 0
    /\ UNCHANGED << variant, outcome, written, processed_agencies, returned,
                    agency, file, dl, polls, waitResult, obs, sawFile,
                    all_agency_dfs, skipped, triggers, lates, agencies, ai,
                    label, normalized, fundingSel, inFrame, activations, wide,
                    melted, faults, lastRead >>

\* A Selenium call of the main loop raises (nothing there catches it).
Main_UiFail ==
    /\ pc \in {"supplier", "activate", "trigger", "skip", "deact"}
    /\ outcome' = "fatal_ui"
    /\ pc' = "done"
    /\ UNCHANGED << variant, written, processed_agencies, returned, retry,
                    attempts, queryText, agency, ci, file, dl, polls,
                    waitResult, obs, sawFile, all_agency_dfs, skipped, triggers,
                    lates, agencies, ai, label, normalized,
                    supplierSel, fundingSel, inFrame, recoveries, active,
                    activations, wide, melted, faults, lastRead >>

\* get_excel_df raises on the downloaded file (nation3.py:467, an export that
\* is not a crosstab of months and years); nothing catches it.
Main_ParseFail ==
    /\ pc = "got"
    /\ outcome' = "fatal_parse"
    /\ pc' = "done"
    /\ UNCHANGED << variant, written, processed_agencies, returned, retry,
                    attempts, queryText, agency, ci, file, dl, polls,
                    waitResult, obs, sawFile, all_agency_dfs, skipped, triggers,
                    lates, agencies, ai, label, normalized,
                    supplierSel, fundingSel, inFrame, recoveries, active,
                    activations, wide, melted, faults, lastRead >>

\* nation3.py:484-493
Main_Finalize ==
    /\ pc = "finalize"
    /\ IF IsEmptyResult(all_agency_dfs)
       THEN outcome' = "fatal_empty" /\ pc' = "done"
       ELSE outcome' = "returned" /\ pc' = "main"
    /\ retry' = RetryBudget
    /\ attempts' = 0
    /\ recoveries' = 0
    /\ lastRead' = NoRead
    /\ UNCHANGED << variant, written, processed_agencies, returned, queryText, agency, ci, file, dl, polls,
                    waitResult, obs, sawFile, all_agency_dfs, skipped, triggers,
                    lates, agencies, ai, label, normalized,
                    supplierSel, fundingSel, inFrame, active,
                    activations, wide, melted, faults >>

\* nation3.py:502-509: the CSV is written unless the returned frame is empty.
Script_Main ==
    /\ pc = "main"
    /\ written' = (all_agency_dfs # << >>)
    /\ pc' = "done"
    /\ UNCHANGED << variant, outcome, processed_agencies, returned, retry,
                    attempts, queryText, agency, ci, file, dl, polls,
                    waitResult, obs, sawFile, all_agency_dfs, skipped, triggers,
                    lates, agencies, ai, label, normalized,
                    supplierSel, fundingSel, inFrame, recoveries, active,
                    activations, wide, melted, faults, lastRead >>

-----------------------------------------------------------------------------
(* Nation_2.py: fixed agency list, wait_for_download *)

RECURSIVE Ascending(_)
Ascending(S) ==
    IF S = {} THEN << >>
    ELSE LET m == CHOOSE x \in S : \A y \in S : x <= y
         IN  << m >> \o Ascending(S \ {m})

\* Nation_2.py:206-207: every title of the facet except "(All)".
get_all_funding_agencies ==
    Ascending({Strip(t) : t \in {o \in FacetTitles :
        Strip(o) # EMPTY /\ Strip(o) # ALL}})

\* Nation_2.py:140-145: no .crdownload sibling, and the final file exists.
wait_for_download_Ready(fileExists, markerExists) ==
    ~markerExists /\ fileExists

\* Nation_2.py:216-240
N2_Setup ==
    /\ pc = "start"
    /\ variant = "Nation_2"
    /\ agencies' = get_all_funding_agencies
    /\ ai' = 1
    /\ pc' = "n2_select"
    /\ fundingSel' = checkbox_input(fundingSel, ALL, FundingFacet)
    /\ UNCHANGED << variant, outcome, written, processed_agencies, returned,
                    retry, attempts, queryText, agency, ci, file, dl, polls,
                    waitResult, obs, sawFile, all_agency_dfs, skipped, triggers,
                    lates, label, normalized,
                    supplierSel, inFrame, recoveries, active,
                    activations, wide, melted, faults, lastRead >>

\* Nation_2.py:245-259, or the end of the agency loop.
N2_SelectAgency ==
    /\ pc = "n2_select"
    /\ IF ai <= Len(agencies)
       THEN /\ agency' = agencies[ai]
            /\ fundingSel' =
                   checkbox_input(fundingSel, agencies[ai], FundingFacet)
            /\ supplierSel' = checkbox_input(supplierSel, ALL, SupplierFacet)
            /\ ci' = 1
            /\ pc' = "n2_activate"
       ELSE /\ pc' = "n2_finalize"
            /\ UNCHANGED << agency, ci, fundingSel, supplierSel >>
    /\ UNCHANGED << variant, outcome, written, processed_agencies, returned,
                    retry, attempts, queryText, file, dl, polls, waitResult,
                    obs, sawFile, all_agency_dfs, skipped, triggers, lates,
                    agencies, ai, label, normalized, inFrame, recoveries,
                    active, activations, wide, melted, faults, lastRead >>

\* Nation_2.py:261-277
N2_Activate ==
    /\ pc = "n2_activate"
    /\ queryText' = send_keys(InputAreaClear(queryText), CompanyText(ci))
    /\ pc' = "n2_trigger"
    /\ supplierSel' = checkbox_input(supplierSel, ci, SupplierFacet)
    /\ active' = ci
    /\ activations' = [activations EXCEPT ![cur] = @ + 1]
    /\ UNCHANGED << variant, outcome, written, processed_agencies, returned,
                    retry, attempts, agency, ci, file, dl, polls, waitResult,
                    obs, sawFile, all_agency_dfs, skipped, triggers, lates,
                    agencies, ai, label, normalized,
                    fundingSel, inFrame, recoveries, wide, melted, faults, lastRead >>

\* Nation_2.py:122-131, 279: the export is requested; nothing is cleaned first.
N2_download_excel_file ==
    /\ pc = "n2_trigger"
    /\ dl' = [dl EXCEPT ![cur] = "req"]
    /\ triggers' = [triggers EXCEPT ![cur] = @ + 1]
    /\ polls' = 0
    /\ waitResult' = "none"
    /\ sawFile' = (file # NoFile)
    /\ obs' = [file |-> FALSE, marker |-> FALSE]
    /\ pc' = "n2_wait"
    /\ UNCHANGED << variant, outcome, written, processed_agencies, returned,
                    retry, attempts, queryText, agency, ci, file,
                    all_agency_dfs, skipped, lates, agencies, ai, label,
                    normalized,
                    supplierSel, fundingSel, inFrame, recoveries, active,
                    activations, wide, melted, faults, lastRead >>

\* Nation_2.py:139-147: one iteration of the polling loop.
wait_for_download_Poll ==
    /\ pc = "n2_wait"
    /\ TimeLeft(polls)
    /\ obs' = [file |-> file # NoFile, marker |-> Marker]
    /\ IF wait_for_download_Ready(file # NoFile, Marker)
       THEN /\ waitResult' = "true"
            /\ pc' = "n2_got"
            /\ UNCHANGED polls
       ELSE /\ polls' = polls + 1
            /\ UNCHANGED << waitResult, pc >>
    /\ UNCHANGED << variant, outcome, written, processed_agencies, returned,
                    retry, attempts, queryText, agency, ci, file, dl, sawFile,
                    all_agency_dfs, skipped, triggers, lates, agencies, ai,
                    label, normalized,
                    supplierSel, fundingSel, inFrame, recoveries, active,
                    activations, wide, melted, faults, lastRead >>

\* Nation_2.py:149 raises; the caller (Nation_2.py:281) does not catch it.
wait_for_download_Raise ==
    /\ pc = "n2_wait"
    /\ ~TimeLeft(polls)
    /\ obs' = [file |-> file # NoFile, marker |-> Marker]
    /\ waitResult' = "raise"
    /\ outcome' = "fatal_timeout"
    /\ pc' = "done"
    /\ UNCHANGED << variant, written, processed_agencies, returned, retry,
                    attempts, queryText, agency, ci, file, dl, polls, sawFile,
                    all_agency_dfs, skipped, triggers, lates, agencies, ai,
                    label, normalized,
                    supplierSel, fundingSel, inFrame, recoveries, active,
                    activations, wide, melted, faults, lastRead >>

\* Nation_2.py:283-291
N2_Parse ==
    /\ pc = "n2_got"
    /\ all_agency_dfs' = append(all_agency_dfs,
           [agency |-> agency, company |-> ci, src |-> file])
    /\ file' = NoFile
    /\ dl' = Idle
    /\ WaitLocalsGone
    /\ pc' = "n2_deact"
    /\ UNCHANGED << variant, outcome, written, processed_agencies, returned,
                    retry, attempts, queryText, agency, ci, skipped, triggers,
                    lates, agencies, ai, label, normalized,
                    supplierSel, fundingSel, inFrame, recoveries, active,
                    activations, wide, melted, faults, lastRead >>

\* Nation_2.py:293-298 and the loop head 261.
N2_Deactivate ==
    /\ pc = "n2_deact"
    /\ IF ci < Len(COMPANIES)
       THEN ci' = NextCompany(ci) /\ pc' = "n2_activate"
       ELSE pc' = "n2_uncheck" /\ UNCHANGED ci
    /\ supplierSel' = checkbox_input(supplierSel, ci, SupplierFacet)
    /\ active' = 0
    /\ UNCHANGED << variant, outcome, written, processed_agencies, returned,
                    retry, attempts, queryText, agency, file, dl, polls,
                    waitResult, obs, sawFile, all_agency_dfs, skipped, triggers,
                    lates, agencies, ai, label, normalized,
                    fundingSel, inFrame, recoveries, activations, wide, melted, faults, lastRead >>

\* Nation_2.py:300-305
N2_UncheckAgency ==
    /\ pc = "n2_uncheck"
    /\ ai' = ai + 1
    /\ pc' = "n2_select"
    /\ fundingSel' = checkbox_input(fundingSel, agency, FundingFacet)
    /\ UNCHANGED << variant, outcome, written, processed_agencies, returned,
                    retry, attempts, queryText, agency, ci, file, dl, polls,
                    waitResult, obs, sawFile, all_agency_dfs, skipped, triggers,
                    lates, agencies, label, normalized,
                    supplierSel, inFrame, recoveries, active,
                    activations, wide, melted, faults, lastRead >>

\* A Selenium call of Nation_2's loops raises.
N2_UiFail ==
    /\ pc \in {"n2_activate", "n2_trigger", "n2_deact", "n2_uncheck"}
    /\ outcome' = "fatal_ui"
    /\ pc' = "done"
    /\ UNCHANGED << variant, written, processed_agencies, returned, retry,
                    attempts, queryText, agency, ci, file, dl, polls,
                    waitResult, obs, sawFile, all_agency_dfs, skipped, triggers,
                    lates, agencies, ai, label, normalized,
                    supplierSel, fundingSel, inFrame, recoveries, active,
                    activations, wide, melted, faults, lastRead >>

\* Nation_2.py:307-315, 324-326: pd.concat raises on an empty list.
N2_Finalize ==
    /\ pc = "n2_finalize"
    /\ outcome' = IF all_agency_dfs = << >> THEN "fatal_concat" ELSE "returned"
    /\ pc' = "done"
    /\ UNCHANGED << variant, written, processed_agencies, returned, retry,
                    attempts, queryText, agency, ci, file, dl, polls,
                    waitResult, obs, sawFile, all_agency_dfs, skipped, triggers,
                    lates, agencies, ai, label, normalized,
                    supplierSel, fundingSel, inFrame, recoveries, active,
                    activations, wide, melted, faults, lastRead >>

NextN2 ==
    \/ N2_Setup
    \/ N2_SelectAgency
    \/ N2_Activate
    \/ N2_download_excel_file
    \/ wait_for_download_Poll
    \/ wait_for_download_Raise
    \/ N2_Parse
    \/ N2_Deactivate
    \/ N2_UncheckAgency
    \/ N2_UiFail
    \/ N2_Finalize

-----------------------------------------------------------------------------
Next3 ==
    \/ Main_Setup
    \/ PFA_ReturnAgency
    \/ PFA_ReturnTerminal
    \/ PFA_AttemptFails
    \/ PFA_Recover
    \/ PFA_Raise
    \/ Main_OpenSupplier
    \/ Main_Activate
    \/ clear_stale_downloads
    \/ download_excel_file
    \/ wait_for_file_download_Poll
    \/ wait_for_file_download_Timeout
    \/ Main_Parse
    \/ Main_Skip
    \/ Main_Deactivate
    \/ Main_UiFail
    \/ Main_ParseFail
    \/ Main_Finalize
    \/ Script_Main

Env ==
    \/ \E c \in ComboSet : DlBegin(c)
    \/ \E c \in ComboSet : DlComplete(c)
    \/ FsVanish

Next == Next3 \/ NextN2 \/ Env

Spec == Init /\ [][Next]_vars

\* The script is one sequential thread: while a statement can run, it does.
\* The browser starts and finishes a requested export while the program sits in
\* a wait that does not time out, so every wait ends.
SpecLive ==
    /\ Init
    /\ [][Next]_vars
    /\ WF_vars(Next3 \/ NextN2)
    /\ WF_vars(\E c \in ComboSet : DlBegin(c))
    /\ WF_vars(\E c \in ComboSet : DlComplete(c))

-----------------------------------------------------------------------------
(* get_excel_df: period normalisation, nation3.py:238 and Nation_2.py:169 *)

Years == 2023 .. (2022 + NumYears)

IsLeap(y) == (y % 4 = 0 /\ y % 100 # 0) \/ y % 400 = 0

DaysInMonth(y, m) ==
    IF m = 2 THEN (IF IsLeap(y) THEN 29 ELSE 28)
    ELSE IF m \in {4, 6, 9, 11} THEN 30 ELSE 31

Dates == {d \in Years \X (1..12) \X (1..31) : d[3] <= DaysInMonth(d[1], d[2])}

\* pandas' roll convention for an anchored offset: moving forward from a day
\* before the anchor, reaching the anchor already counts as one step.
roll_convention(day, n, compare) ==
    IF n > 0 /\ day < compare THEN n - 1
    ELSE IF n <= 0 /\ day > compare THEN n + 1
    ELSE n

\* The last day of the month that lies `months` after month m of year y.
shift_month_end(y, m, months) ==
    LET k  == (y * 12 + (m - 1)) + months
        yy == k \div 12
        mm == (k % 12) + 1
    IN  << yy, mm, DaysInMonth(yy, mm) >>

\* date + pd.offsets.MonthEnd(n)
MonthEnd(n, date) ==
    shift_month_end(date[1], date[2],
        roll_convention(date[3], n, DaysInMonth(date[1], date[2])))

\* nation3.py:238, Nation_2.py:169: pd.to_datetime(...) + pd.offsets.MonthEnd(1)
NormalizePeriod(date) == MonthEnd(1, date)

InitDate ==
    /\ variant = "nation3"
    /\ pc = "reshape"
    /\ Fresh
    /\ label \in Dates
    /\ normalized = NoDate
    /\ wide = NoTable
    /\ melted = << >>
    /\ faults = "download"

get_excel_df_Normalize ==
    /\ pc = "reshape"
    /\ normalized = NoDate
    /\ normalized' = NormalizePeriod(label)
    /\ UNCHANGED << variant, pc, outcome, written, processed_agencies, returned,
                    retry, attempts, queryText, agency, ci, file, dl, polls,
                    waitResult, obs, sawFile, all_agency_dfs, skipped, triggers,
                    lates, agencies, ai, label,
                    supplierSel, fundingSel, inFrame, recoveries, active,
                    activations, wide, melted, faults, lastRead >>

NextDate == get_excel_df_Normalize

SpecDate == InitDate /\ [][NextDate]_vars

-----------------------------------------------------------------------------
(* get_excel_df: the wide-to-long reshape, nation3.py:215-240 and            *)
(* Nation_2.py:152-171                                                       *)

\* An export as df stands after nation3.py:218-220: header holds the period
\* labels of row 0 (the months of the dashboard's month view, nation3.py:404-409)
\* without column 0, and every row is one series: its label in column 0 (a year
\* of the year-over-year page, nation3.py:280) and one cell per period.  A
\* period label names a day of its month, <<month, day>>: the first ("January")
\* or the last one that every year has ("January 31"); the periods are the
\* months 1..P, pairwise distinct, and the series come in ascending years.
Values == 0..MaxValue

Increasing(q) == \A i, j \in 1..Len(q) : i < j => q[i] < q[j]

LabelDay(m, last) == IF last THEN DaysInMonth(2023, m) ELSE 1

Table(labels, cells, days) ==
    [header |-> [j \in 1..Len(cells[1]) |-> << j, days[j] >>],
     rows |-> [i \in 1..Len(labels) |->
                  [label |-> labels[i], cells |-> cells[i]]]]

\* A cell that pd.concat fills in for an index value a frame does not have.
NaN == -1

\* nation3.py:232 temp_df.reset_index(drop=True): the row keeps no index of
\* its own.
ResetIndex_Keep(i) == i

ResetIndex(i) == 0

\* nation3.py:225-232: the one-row frame of row i; every column is renamed to
\* "<period label> <series label>" and column 0 is dropped.
TempDf(tbl, i) ==
    [index |-> ResetIndex(i),
     names |-> [j \in 1..Len(tbl.header) |->
                   << tbl.header[j], tbl.rows[i].label >>],
     cells |-> tbl.rows[i].cells]

\* nation3.py:235 pd.concat(dfs, axis=1): the columns side by side, the rows
\* aligned on the union of the frames' indexes.
ConcatColumns(dfs) ==
    LET P == Len(dfs[1].names)
        f(k) == ((k - 1) \div P) + 1
        j(k) == ((k - 1) % P) + 1
        idx == {dfs[i].index : i \in 1..Len(dfs)}
    IN  [index |-> Ascending(idx),
         names |-> [k \in 1..(Len(dfs) * P) |-> dfs[f(k)].names[j(k)]],
         cells |-> [r \in idx |-> [k \in 1..(Len(dfs) * P) |->
                       IF dfs[f(k)].index = r THEN dfs[f(k)].cells[j(k)]
                       ELSE NaN]]]

\* nation3.py:236 pd.melt(df): one record per column and row, column by column.
Melt(df) ==
    LET N == Len(df.index)
    IN  [n \in 1..(Len(df.names) * N) |->
            LET k == ((n - 1) \div N) + 1
                r == df.index[((n - 1) % N) + 1]
            IN  [variable |-> df.names[k], value |-> df.cells[r][k]]]

\* pd.to_datetime("<month> <day> <year>"): that day; the first of the month
\* when the label names the month only.
to_datetime(name) == << name[2], name[1][1], name[1][2] >>

\* nation3.py:237-238: "variable" becomes "date", parsed and normalised.
Reshape(tbl) ==
    LET m == Melt(ConcatColumns([i \in 1..Len(tbl.rows) |-> TempDf(tbl, i)]))
    IN  [n \in 1..Len(m) |->
            [date |-> NormalizePeriod(to_datetime(m[n].variable)),
             value |-> m[n].value]]

\* nation3.py:468-470: every record of the export gets the ticker and the
\* agency of the combination the loops are at.
TagRecords(df, ticker, fa) ==
    [n \in 1..Len(df) |->
        [DATE |-> df[n].date, VALUE |-> df[n].value,
         TICKER |-> ticker, FUNDING_AGENCY |-> fa]]

InitReshape ==
    /\ variant = "nation3"
    /\ pc = "reshape"
    /\ Fresh
    /\ label = NoDate
    /\ normalized = NoDate
    /\ \E S \in 1..NumYears, P \in 1..MaxPeriods :
          \E labels \in {q \in [1..S -> Years] : Increasing(q)},
             cells \in [1..S -> [1..P -> Values]],
             last \in SUBSET (1..P) :
              wide = Table(labels, cells, [j \in 1..P |-> LabelDay(j, j \in last)])
    /\ melted = << >>
    /\ faults = "download"

get_excel_df ==
    /\ pc = "reshape"
    /\ wide # NoTable
    /\ melted = << >>
    /\ melted' = Reshape(wide)
    /\ UNCHANGED << variant, pc, outcome, written, processed_agencies, returned,
                    retry, attempts, queryText, agency, ci, file, dl, polls,
                    waitResult, obs, sawFile, all_agency_dfs, skipped, triggers,
                    lates, agencies, ai, label, normalized,
                    supplierSel, fundingSel, inFrame, recoveries, active,
                    activations, wide, faults, lastRead >>

NextReshape == get_excel_df

SpecReshape == InitReshape /\ [][NextReshape]_vars

-----------------------------------------------------------------------------
(* Properties *)

Last(q) == q[Len(q)]

\* The combinations a record list is tagged with.
Tagged(dfs) == {<< dfs[i].agency, dfs[i].company >> : i \in 1..Len(dfs)}

\* The combinations of the agencies the enumerator has returned.
RunCombos == (processed_agencies \ {EMPTY}) \X CompanyIdx

\* The combinations whose wait has ended and whose result has been used, by the
\* position of the loops.
Traversed ==
    {c \in RunCombos :
        \/ c[1] # agency
        \/ pc \in {"pfa", "pfa_recover", "finalize", "main", "done"}
        \/ pc \in {"activate", "clear", "trigger", "wait", "got", "skip"}
              /\ c[2] < ci
        \/ pc = "deact" /\ c[2] <= ci}

\* C1: over a run of nation3.py, no non-empty agency value is returned by two
\* different calls of process_funding_agency, whatever failed attempts and
\* recoveries the calls went through.
C1_NoAgencyReturnedTwice ==
    \A i, j \in 1..Len(returned) :
        (i < j /\ returned[i] # EMPTY) => returned[i] # returned[j]

\* Two agencies have been returned, the second one by a call whose earlier
\* attempts failed.
C1_Witness ==
    /\ pc = "supplier"
    /\ Len(returned) = 2
    /\ returned[1] # EMPTY /\ returned[2] # EMPTY
    /\ attempts > 1

\* C2: the enumerator returns the terminal signal "" at most once, as its last
\* value, and only after every agency of the facet has been returned exactly
\* once by an earlier call.
C2_TerminalOnlyWhenExhausted ==
    \A i \in 1..Len(returned) :
        returned[i] = EMPTY =>
            /\ i = Len(returned)
            /\ {returned[j] : j \in 1..(i - 1)} = AgencyCodes
            /\ i - 1 = Cardinality(AgencyCodes)

\* The terminal signal has been returned after all agencies.
C2_Witness ==
    /\ Len(returned) = NumAgencies + 1
    /\ Last(returned) = EMPTY
    /\ pc = "finalize"

\* C3: in a run of nation3.py the combinations whose wait timed out (skipped)
\* contribute no record, every other traversed combination contributes exactly
\* one tagged record list, the loop goes on after a timeout, and once the
\* enumerator has returned the terminal signal with skipped not being the set
\* of all combinations the run ends without a fatal error.
C3_TimeoutSkipsOneCombination ==
    variant = "nation3" =>
        /\ Tagged(all_agency_dfs) \cap skipped = {}
        /\ outcome \notin {"fatal_ui", "fatal_parse"} =>
              Tagged(all_agency_dfs) \cup skipped = Traversed
        /\ Len(all_agency_dfs) = Cardinality(Tagged(all_agency_dfs))
        /\ (returned # << >> /\ Last(returned) = EMPTY /\ skipped # RunCombos)
              => /\ outcome \in {"running", "returned"}
                 /\ pc = "done" => outcome = "returned"
                 /\ Tagged(all_agency_dfs) = AllCombos \ skipped

\* Two agencies x five companies, one timeout: nine combinations in the table.
C3_Witness ==
    /\ variant = "nation3"
    /\ pc = "done"
    /\ outcome = "returned"
    /\ Cardinality(skipped) = 1
    /\ Len(all_agency_dfs) = NumAgencies * Len(COMPANIES) - 1

\* C4: every record list of the fact table holds the export that was triggered
\* for the combination it is tagged with.
C4_ArtifactBelongsToItsCombination ==
    \A i \in 1..Len(all_agency_dfs) :
        all_agency_dfs[i].src =
            << all_agency_dfs[i].agency, all_agency_dfs[i].company >>

\* C5: a download wait (wait_for_file_download of nation3.py, wait_for_download
\* of Nation_2.py) reports success only from a poll taken before the timeout at
\* which the final file existed and its .crdownload marker did not.
C5_SuccessOnlyWhenFileComplete ==
    (waitResult = "true" \/ pc \in {"got", "n2_got"}) =>
        /\ waitResult = "true"
        /\ obs.file /\ ~obs.marker
        /\ TimeLeft(polls)

\* A wait has succeeded at a poll later than its first one.
C5_Witness ==
    /\ pc = "got"
    /\ polls >= 1
    /\ obs.file /\ ~obs.marker

\* C6: when the timeout of wait_for_file_download elapses while the marker
\* exists, the wait returns failure, whether or not the final file existed at
\* some earlier moment of the wait.
C6_MarkerAtTimeoutMeansFailure ==
    (variant = "nation3" /\ pc \in {"got", "skip"} /\ ~TimeLeft(polls)
        /\ obs.marker) => waitResult = "false"

\* The wait timed out with the marker present, after the final file had appeared
\* during the wait and vanished again.
C6_Witness ==
    /\ pc = "skip"
    /\ waitResult = "false"
    /\ obs.marker /\ ~obs.file
    /\ sawFile

\* C7: in every script variant that polls for the file, a wait that ends by
\* timeout returns a negative value instead of raising, and no combination's
\* export is triggered a second time.
C7_TimeoutIsAReturnValue ==
    /\ waitResult # "raise"
    /\ outcome # "fatal_timeout"
    /\ \A c \in ComboSet : triggers[c] <= 1

\* C8: one call of process_funding_agency makes at most RetryBudget (8)
\* attempts; it raises only after RetryBudget failed attempts; it returns from
\* the first attempt that does not fail; and a call that returned the terminal
\* signal has not raised.
C8_BoundedRetryThenFatal ==
    variant = "nation3" =>
        /\ attempts <= RetryBudget
        /\ pc \in {"pfa", "pfa_recover"} => attempts = RetryBudget - retry
        /\ pc \in {"supplier", "finalize"} =>
              /\ attempts = (RetryBudget - retry) + 1
              /\ retry > 0
        /\ outcome = "fatal_enum" =>
              /\ attempts = RetryBudget /\ retry = 0
              /\ pc = "done"
              /\ returned = << >> \/ Last(returned) # EMPTY
        /\ (returned # << >> /\ Last(returned) = EMPTY) =>
              outcome # "fatal_enum"

\* A call made after an agency was processed failed eight times and raised.
C8_Witness ==
    /\ outcome = "fatal_enum"
    /\ attempts = RetryBudget
    /\ processed_agencies # {}

\* C9: finalization (nation3.py:488-493, 502-509) raises when nothing was
\* collected, in particular when every combination timed out, and then neither
\* returns nor writes a table; when something was collected it returns.
C9_EmptyResultIsFatal ==
    (variant = "nation3" /\ (pc = "main" \/ (pc = "done" /\
            outcome \in {"returned", "fatal_empty"}))) =>
        /\ all_agency_dfs = << >> => (outcome = "fatal_empty" /\ ~written)
        /\ all_agency_dfs # << >> => outcome = "returned"
        /\ skipped = AllCombos => (outcome = "fatal_empty" /\ ~written)

\* Every combination of the run timed out and finalization raised.
C9_Witness ==
    /\ outcome = "fatal_empty"
    /\ skipped = AllCombos
    /\ ~written

\* C10: a period label that parses as any day of month M of year Y is
\* normalised to the last day of that same month.
C10_EndOfSameMonth ==
    normalized # NoDate =>
        normalized = << label[1], label[2], DaysInMonth(label[1], label[2]) >>

\* The record of the cell of series s and period p of the export: melt goes
\* column by column, and the columns are the series' periods side by side.
CellRecord(s, p) == (s - 1) * Len(wide.header) + p

\* C11: for a well-formed export of S >= 1 series rows and P period columns
\* without missing cells, get_excel_df returns exactly S x P records, one per
\* (series, period) cell, each with that cell's value as it was.
C11_OneRecordPerCell ==
    melted # << >> =>
        /\ Len(melted) = Len(wide.rows) * Len(wide.header)
        /\ \A s \in 1..Len(wide.rows) : \A p \in 1..Len(wide.header) :
              /\ melted[CellRecord(s, p)].value = wide.rows[s].cells[p]
              /\ melted[CellRecord(s, p)].date =
                     NormalizePeriod(<< wide.rows[s].label, wide.header[p][1],
                                        wide.header[p][2] >>)

\* An export of two series and two periods whose cells differ has been reshaped.
C11_Witness ==
    /\ Len(wide.rows) = 2 /\ Len(wide.header) = 2
    /\ wide.rows[1].cells # wide.rows[2].cells
    /\ wide.rows[1].cells[1] # wide.rows[1].cells[2]
    /\ Len(melted) = 4

\* C12: at every export trigger, for every agency of the run, the Supplier
\* facet has exactly the current company ticked and nothing else.
C12_OnlyCurrentCompanySelected ==
    pc \in {"trigger", "n2_trigger"} => supplierSel = {ci}

\* C13: whenever process_funding_agency returns an agency A, the Funding Agency
\* facet has A ticked and no other value; agencies returned earlier are not
\* ticked any more.
C13_ReturnedAgencyIsSoleSelection ==
    (variant = "nation3" /\ pc = "supplier") => fundingSel = {agency}

\* C14: every run of nation3.py ends in one of three outcomes: it returns after
\* the enumerator's terminal signal with a non-empty table, it aborts because
\* the enumerator has spent its retry budget, or it aborts because nothing was
\* collected.  A failing company click, export trigger or reshape does not end
\* the run.
C14_OnlyThreeOutcomes ==
    (variant = "nation3" /\ pc = "done") =>
        /\ outcome \in {"returned", "fatal_enum", "fatal_empty"}
        /\ outcome = "returned" =>
              (Last(returned) = EMPTY /\ all_agency_dfs # << >>)

\* C15: in a run of nation3.py no contracts-flow*.xlsx file lies in the download
\* directory at the moment of an export trigger, and every file the reshaper has
\* parsed is deleted before the next trigger and is never parsed twice.
C15_ClearBeforeTriggerConsumeBeforeNext ==
    [][variant = "nation3" =>
          /\ download_excel_file => file = NoFile
          /\ Main_Parse => file' = NoFile
          /\ \A i, j \in 1..Len(all_agency_dfs') :
                all_agency_dfs'[i].src = all_agency_dfs'[j].src => i = j]_vars

\* C16: when process_funding_agency spends its retry budget after agencies were
\* processed and their records collected, the run aborts there: nothing is
\* returned to __main__ and no CSV is written from the collected records; a
\* table is returned or written only after the terminal signal.
C16_ExhaustionEmitsNothing ==
    variant = "nation3" =>
        /\ outcome = "fatal_enum" => (pc = "done" /\ ~written)
        /\ (written \/ outcome = "returned" \/ pc \in {"finalize", "main"}) =>
              (returned # << >> /\ Last(returned) = EMPTY)

\* The enumerator gave up after the records of a whole agency were collected.
C16_Witness ==
    /\ outcome = "fatal_enum"
    /\ pc = "done"
    /\ Len(all_agency_dfs) >= Len(COMPANIES)
    /\ ~written

\* The order in which the run went through the agencies.
EnumOrder == IF variant = "nation3" THEN returned ELSE agencies

PosIn(q, a) == CHOOSE i \in 1..Len(q) : q[i] = a

\* C17: the collected table, and so the final fact table that pd.concat builds
\* from it, lists the successful combinations in traversal order: by the order
\* in which the agencies were enumerated and, within an agency, by the order of
\* COMPANIES, each combination once; the sequence is fixed by the enumeration
\* order and the set of combinations that succeeded.
C17_TraversalOrder ==
    \A i, j \in 1..Len(all_agency_dfs) :
        i < j =>
            LET a == all_agency_dfs[i]
                b == all_agency_dfs[j]
            IN  \/ PosIn(EnumOrder, a.agency) < PosIn(EnumOrder, b.agency)
                \/ a.agency = b.agency /\ a.company < b.company

\* A run that enumerated the agencies in descending order has returned the
\* records of all combinations.
C17_Witness ==
    /\ variant = "nation3"
    /\ pc = "done" /\ outcome = "returned"
    /\ returned[1] > returned[2]
    /\ Len(all_agency_dfs) = NumAgencies * Len(COMPANIES)

\* The activations and export triggers a combination has had.
Done(c, n, m) == activations[c] = n /\ triggers[c] = m

\* C18: in a run of nation3.py the enumerator is called only while no company
\* is active and no download wait is going on; for each agency it returned,
\* the entries of COMPANIES are activated once each, in list order, each
\* activation with one export trigger and with its deactivation done before
\* the next activation; and when the enumerator is called again all of them
\* are done.
C18_Serialized ==
    (variant = "nation3" /\ pc # "done") =>
        /\ pc \in {"pfa", "pfa_recover", "finalize", "main"} =>
              /\ active = 0
              /\ waitResult = "none" /\ polls = 0
              /\ \A c \in RunCombos : Done(c, 1, 1)
        /\ \A c \in ComboSet \ RunCombos : Done(c, 0, 0)
        /\ pc \in {"supplier", "activate", "clear", "trigger", "wait", "got",
                    "skip", "deact"} =>
              /\ \A c \in RunCombos :
                    /\ c[1] # agency => Done(c, 1, 1)
                    /\ (c[1] = agency /\ pc # "supplier" /\ c[2] < ci) =>
                          Done(c, 1, 1)
                    /\ (c[1] = agency /\ (pc = "supplier" \/ c[2] > ci)) =>
                          Done(c, 0, 0)
              /\ pc \in {"supplier", "activate"} => active = 0
              /\ pc = "activate" => Done(cur, 0, 0)
              /\ pc \in {"clear", "trigger"} =>
                    (active = ci /\ Done(cur, 1, 0))
              /\ pc \in {"wait", "got", "skip", "deact"} =>
                    (active = ci /\ Done(cur, 1, 1))

\* The enumerator is called for the second time, after every company of the
\* first agency was activated, one of them with a timed-out download.
C18_Witness ==
    /\ pc = "pfa"
    /\ Len(returned) = 1
    /\ skipped # {}
    /\ \A i \in CompanyIdx : Done(<< returned[1], i >>, 1, 1)

\* C19: within one call of process_funding_agency every failed attempt is
\* followed by exactly one recovery action before the next attempt starts, so
\* at the head of the loop the recoveries done equal the attempts failed and
\* the budget spent; an attempt that returns comes after them, with the driver
\* inside the iframe; a recovery that fails itself is swallowed: it costs no
\* retry and the call goes on.
C19_OneRecoveryPerFailedAttempt ==
    variant = "nation3" =>
        /\ pc = "pfa" =>
              (recoveries = RetryBudget - retry /\ recoveries = attempts)
        /\ pc = "pfa_recover" =>
              (recoveries + 1 = RetryBudget - retry /\ attempts = recoveries + 1)
        /\ pc \in {"supplier", "finalize"} =>
              (recoveries = attempts - 1 /\ inFrame)
        /\ outcome = "fatal_enum" => recoveries = RetryBudget
        /\ (~inFrame /\ pc # "done") =>
              (pc \in {"pfa", "pfa_recover"} /\ outcome = "running")

\* After two failed attempts and two recoveries, the second of which failed and
\* left the driver outside the iframe, the call is at its third attempt with
\* two retries spent.
C19_Witness ==
    /\ pc = "pfa"
    /\ ~inFrame
    /\ recoveries = 2
    /\ retry = RetryBudget - 2
    /\ outcome = "running"

\* The agencies process_funding_agency has returned so far.
ReturnedAgencies == {returned[i] : i \in 1..Len(returned)} \ {EMPTY}

\* C20: at every point of a run of nation3.py processed_agencies is exactly
\* the set of agencies returned so far by process_funding_agency, one more per
\* successful call: failed attempts, recoveries, the terminal return and the
\* fatal exhaustion leave it as it is, and it never loses a value.
C20_ProcessedEqualsReturned ==
    variant = "nation3" =>
        /\ processed_agencies = ReturnedAgencies
        /\ Cardinality(processed_agencies) =
              Cardinality({i \in 1..Len(returned) : returned[i] # EMPTY})

\* Two agencies were returned; the third call failed eight times, with a
\* recovery after each failure, and raised.
C20_Witness ==
    /\ outcome = "fatal_enum"
    /\ recoveries = RetryBudget
    /\ Len(returned) = 2
    /\ processed_agencies = {returned[1], returned[2]}

\* C21: the enumerator never returns, and never adds to the processed set, a
\* sentinel ("(All)", "Null") or the text of an empty or all-blank title,
\* whatever titles the page lists; a value it returns is the trimmed title of
\* an option that was in the list read by the returning attempt and was not yet
\* processed then.  "" appears only as the terminal value, last.
C21_ReturnedIsListedUnprocessedTitle ==
    /\ processed_agencies \cap (Sentinels \cup {EMPTY}) = {}
    /\ \A i \in 1..Len(returned) :
        /\ returned[i] \notin Sentinels
        /\ returned[i] = EMPTY => i = Len(returned)
    /\ pc = "supplier" =>
        /\ agency = Last(returned)
        /\ agency \notin Sentinels \cup {EMPTY}
        /\ agency \in {Strip(t) : t \in lastRead.options}
        /\ agency \notin lastRead.processed

C21_Witness ==
    /\ pc = "supplier"
    /\ agency = 2
    /\ lastRead.processed = {1}
    /\ OtherTitles \cup {<<ALL, FALSE>>, <<NULLV, FALSE>>} \subseteq lastRead.options
    /\ processed_agencies = {1, 2}

\* The calls of process_funding_agency made so far: those that returned, and
\* the one in progress or that raised.
Calls ==
    Len(returned)
    + (IF pc \in {"pfa", "pfa_recover"} \/ outcome = "fatal_enum" THEN 1 ELSE 0)

RECURSIVE Total(_, _)
Total(f, S) ==
    IF S = {} THEN 0
    ELSE LET c == CHOOSE x \in S : TRUE IN f[c] + Total(f, S \ {c})

\* C22: with N discoverable agencies and waits that always end, every run
\* terminates: the enumerator is called at most N+1 times, a call makes at most
\* 8 attempts, at most 5 x N exports are triggered, and the run reaches its end.
C22_RunTerminates ==
    /\ [](variant = "nation3" =>
            /\ Calls <= NumAgencies + 1
            /\ attempts <= RetryBudget
            /\ Total(triggers, ComboSet) <= Len(COMPANIES) * NumAgencies)
    /\ (variant = "nation3" => <>(pc = "done"))

C22_Witness ==
    /\ variant = "nation3"
    /\ pc = "done"
    /\ Calls = NumAgencies + 1
    /\ Total(triggers, ComboSet) = Len(COMPANIES) * NumAgencies
    /\ skipped # {}

\* The (DATE, TICKER, FUNDING_AGENCY) triple of a record.
Triple(r) == << r.DATE, r.TICKER, r.FUNDING_AGENCY >>

\* C23: in the fact table of a run whose exports are well-formed (any number of
\* series rows, period labels in pairwise distinct months), no two records
\* share the (DATE, TICKER, FUNDING_AGENCY) triple; here for the records that
\* one export contributes, under whatever combination it is tagged with.
C23_NoDuplicateTriple ==
    \A c \in AllCombos :
        LET t == TagRecords(melted, c[2], c[1])
        IN  \A m, n \in 1..Len(t) : Triple(t[m]) = Triple(t[n]) => m = n


====
